---- MODULE Spec2Model ----
(***************************************************************************)
(* Model of kitty/tabs.py: the Tab / TabManager grouping and focus state   *)
(* machine.  Indices are 0-based as in the Python source; sequences are    *)
(* 1-based TLA+ sequences read through At0.  Every operation is one action *)
(* that runs the whole Python method, including the property setters and   *)
(* the helper methods it calls, by threading a state record S through the  *)
(* operators below in the order of the Python statements.                  *)
(***************************************************************************)
EXTENDS Integers, Sequences, FiniteSets, TLC

VARIABLES
    tabs,                \* TabManager.tabs: sequence of tab ids, display order
    active_tab_idx,      \* TabManager._active_tab_idx
    active_tab_history,  \* TabManager.active_tab_history (deque of tab ids)
    windows,             \* Tab.windows for every tab id: sequence of window ids
    active_window_idx,   \* Tab._active_window_idx for every tab id
    next_tab_id,         \* native tab id counter behind add_tab()
    next_window_id,      \* native window id counter behind Window()
    overlay_for,         \* Window.overlay_for for every window id
    overlay_window_id,   \* Window.overlay_window_id for every window id
    current_layout,      \* name of Tab.current_layout for every tab id
    needs_attention,     \* the windows whose needs_attention flag is set
    focused,             \* the windows whose latest focus_changed call was True
    native,              \* the native layer's tab list and selected index
    evicted,             \* evict_cached_layouts calls made so far, per tab id
    observed,            \* whether focused, native and evicted are followed
    trace,               \* calls made to collaborators by the last operation
    last                 \* the last operation, its arguments and the state it started in

vars == <<tabs, active_tab_idx, active_tab_history, windows, active_window_idx,
          next_tab_id, next_window_id, overlay_for, overlay_window_id,
          current_layout, needs_attention, focused, native, evicted, observed, trace, last>>

-----------------------------------------------------------------------------
(* Bounds of the model *)

MaxTabs == 3
MaxTabId == 3
MaxHistory == 2
MaxWindows == 2
MaxWindowId == 2
BigDelta == 4

(* Program constant: capacity of active_tab_history *)
HistoryCap == 64

None == 0
Raise == 0 - 1
TabIds == 1..MaxTabId
WindowIds == 1..(MaxTabId + MaxWindowId)
Deltas == {0 - BigDelta, 0 - 1, 0, 1, BigDelta}
LayoutRet == (0 - 1)..MaxWindows

-----------------------------------------------------------------------------
(* Python helpers *)

Min(a, b) == IF a < b THEN a ELSE b
Max(a, b) == IF a > b THEN a ELSE b
At0(s, i) == s[i + 1]
InRange(s, i) == 0 <= i /\ i < Len(s)
Last(s) == s[Len(s)]
Front(s) == SubSeq(s, 1, Len(s) - 1)
Range(s) == {s[i] : i \in 1..Len(s)}
IndexOf0(s, x) == (CHOOSE i \in 1..Len(s) : s[i] = x /\ \A j \in 1..(i - 1) : s[j] # x) - 1
RemoveFirst(s, x) ==
    LET i == IndexOf0(s, x) + 1 IN SubSeq(s, 1, i - 1) \o SubSeq(s, i + 1, Len(s))
InsertAt0(s, p, x) == SubSeq(s, 1, p) \o <<x>> \o SubSeq(s, p + 1, Len(s))
Swap0(s, i, j) == [k \in 1..Len(s) |-> IF k = i + 1 THEN s[j + 1]
                                      ELSE IF k = j + 1 THEN s[i + 1] ELSE s[k]]
\* Python s[i]: a negative index counts from the end, IndexError is Raise
PyIndex(s, i) ==
    IF InRange(s, i) THEN At0(s, i)
    ELSE IF 0 - Len(s) <= i /\ i < 0 THEN At0(s, Len(s) + i)
    ELSE Raise
\* s[i] inside try/except: the handler turns the IndexError into None
TryAt0(s, i) == IF PyIndex(s, i) = Raise THEN None ELSE PyIndex(s, i)

\* Strings are sequences of character codes.  str.lower(): the codes of A..Z
\* (65..90) become those of a..z (97..122), every other code stays
Lower(str) == [i \in 1..Len(str) |-> IF 65 <= str[i] /\ str[i] <= 90 THEN str[i] + 32
                                     ELSE str[i]]

Ev(call, a, b, by) == [call |-> call, a |-> a, b |-> b, by |-> by]
Emit(S, evs) == [S EXCEPT !.trace = @ \o evs]

Cur == [tabs |-> tabs, active_tab_idx |-> active_tab_idx,
        active_tab_history |-> active_tab_history, windows |-> windows,
        active_window_idx |-> active_window_idx, next_tab_id |-> next_tab_id,
        next_window_id |-> next_window_id, overlay_for |-> overlay_for,
        overlay_window_id |-> overlay_window_id, current_layout |-> current_layout,
        needs_attention |-> needs_attention, trace |-> <<>>]

Pre(S) == [tabs |-> S.tabs, active_tab_idx |-> S.active_tab_idx,
           active_tab_history |-> S.active_tab_history, windows |-> S.windows,
           active_window_idx |-> S.active_window_idx,
           next_window_id |-> S.next_window_id,
           current_layout |-> S.current_layout]

\* What the collaborators make of the calls in a trace: a window is focused when
\* its latest focus_changed call was True
Window_focus_changed(foc, tr) ==
    {w \in WindowIds :
        LET I == {i \in 1..Len(tr) : tr[i].call = "focus_changed" /\ tr[i].a = w}
        IN  IF I = {} THEN w \in foc
            ELSE tr[CHOOSE i \in I : \A j \in I : j <= i].b = 1}

\* the native tab list under add_tab, remove_tab, swap_tabs and set_active_tab
Native_call(m, e) ==
    IF e.by # "native" THEN m
    ELSE IF e.call = "add_tab" THEN [m EXCEPT !.tabs = Append(@, e.a)]
    ELSE IF e.call = "remove_tab" /\ e.a \in Range(m.tabs)
         THEN [m EXCEPT !.tabs = RemoveFirst(@, e.a)]
    ELSE IF e.call = "swap_tabs" /\ InRange(m.tabs, e.a) /\ InRange(m.tabs, e.b)
         THEN [m EXCEPT !.tabs = Swap0(@, e.a, e.b)]
    ELSE IF e.call = "set_active_tab" THEN [m EXCEPT !.active_tab = e.a]
    ELSE m

RECURSIVE Native_calls(_, _, _)
Native_calls(m, tr, i) ==
    IF i > Len(tr) THEN m ELSE Native_calls(Native_call(m, tr[i]), tr, i + 1)

\* the evict_cached_layouts calls counted per tab id
Layout_evict_cached_layouts(ev, tr) ==
    [t \in TabIds |->
        ev[t] + Cardinality({i \in 1..Len(tr) :
                                tr[i].call = "evict_cached_layouts" /\ tr[i].a = t})]

Commit(S, op, a, b, r) ==
    /\ tabs' = S.tabs
    /\ active_tab_idx' = S.active_tab_idx
    /\ active_tab_history' = S.active_tab_history
    /\ windows' = S.windows
    /\ active_window_idx' = S.active_window_idx
    /\ next_tab_id' = S.next_tab_id
    /\ next_window_id' = S.next_window_id
    /\ overlay_for' = S.overlay_for
    /\ overlay_window_id' = S.overlay_window_id
    /\ current_layout' = S.current_layout
    /\ needs_attention' = S.needs_attention
    /\ focused' = IF observed THEN Window_focus_changed(focused, S.trace) ELSE focused
    /\ native' = IF observed THEN Native_calls(native, S.trace, 1) ELSE native
    /\ evicted' = IF observed THEN Layout_evict_cached_layouts(evicted, S.trace) ELSE evicted
    /\ observed' = observed
    /\ trace' = S.trace
    /\ last' = [op |-> op, a |-> a, b |-> b, r |-> r, pre |-> Pre(Cur)]

-----------------------------------------------------------------------------
(* LayoutStrategy (kitty/layout.py): reflow of the window collection.  The  *)
(* index each call returns is an input of the calling action.               *)

Layout_add_window(ws, w, p) == InsertAt0(ws, p, w)
Layout_remove_window(ws, w) == SelectSeq(ws, LAMBDA x : x # w)
Layout_move_window(ws, idx, delta) ==
    IF Len(ws) > 1 /\ InRange(ws, idx)
    THEN Swap0(ws, idx, (idx + Len(ws) + delta) % Len(ws))
    ELSE ws

-----------------------------------------------------------------------------
(* class Tab *)

\* opts.enabled_layouts as configured, <<"Tall", "stack">>, and the names a
\* goto_layout call may be given: "tall", "Tall", "TALL", "stack", "STACK",
\* "grid", "Grid"
Opts_enabled_layouts == << <<84, 97, 108, 108>>, <<115, 116, 97, 99, 107>> >>
LayoutNames == { <<116, 97, 108, 108>>, <<84, 97, 108, 108>>, <<84, 65, 76, 76>>,
                 <<115, 116, 97, 99, 107>>, <<83, 84, 65, 67, 75>>,
                 <<103, 114, 105, 100>>, <<71, 114, 105, 100>> }

\* Tab.enabled_layouts: `[x.lower() for x in ... self.opts.enabled_layouts]`
Tab_enabled_layouts ==
    [i \in 1..Len(Opts_enabled_layouts) |-> Lower(Opts_enabled_layouts[i])]

\* Tab.active_window (property)
Tab_active_window(S, t) ==
    IF S.windows[t] # <<>> THEN PyIndex(S.windows[t], S.active_window_idx[t]) ELSE None

\* `max(0, min(val, len(self.windows) - 1))` of the active_window_idx setter
Tab_clamp_NoUpper(val, n) == Max(0, val)
Tab_clamp(val, n) == Max(0, Min(val, n - 1))

\* Tab.active_window_idx (setter)
Tab_active_window_idx(S, t, val) ==
    LET ws == S.windows[t]
        old_active_window == TryAt0(ws, S.active_window_idx[t])
        idx == Tab_clamp(val, Len(ws))
        new_active_window == TryAt0(ws, idx)
        S1 == [S EXCEPT !.active_window_idx[t] = idx]
    IN  IF old_active_window # new_active_window
        THEN Emit(S1,
                  (IF old_active_window # None
                   THEN <<Ev("focus_changed", old_active_window, 0, "Tab")>> ELSE <<>>)
               \o (IF new_active_window # None
                   THEN <<Ev("focus_changed", new_active_window, 1, "Tab")>> ELSE <<>>)
               \o <<Ev("relayout_borders", t, 0, "Tab"),
                    Ev("mark_tab_bar_dirty", 0, 0, "Tab")>>)
        ELSE S1

\* Tab.relayout_borders
Tab_relayout_borders(S, t) == Emit(S, <<Ev("relayout_borders", t, 0, "Tab")>>)

\* Tab.relayout; r is what current_layout(windows, active_window_idx) returns
Tab_relayout(S, t, r) ==
    LET S1 == IF S.windows[t] # <<>> THEN Tab_active_window_idx(S, t, r) ELSE S
    IN  Tab_relayout_borders(S1, t)

\* Tab.next_layout; a layout object is modelled by its name
Tab_next_layout(S, t, r) ==
    IF Len(Tab_enabled_layouts) > 1
    THEN LET idx == IF S.current_layout[t] \in Range(Tab_enabled_layouts)
                    THEN IndexOf0(Tab_enabled_layouts, S.current_layout[t]) ELSE 0 - 1
             nl == At0(Tab_enabled_layouts, (idx + 1) % Len(Tab_enabled_layouts))
         IN  Tab_relayout([S EXCEPT !.current_layout[t] = nl], t, r)
    ELSE S

\* goto_layout that compares the name as given
Tab_goto_layout_CaseSensitive(S, t, layout_name, r) ==
    IF layout_name \notin Range(Tab_enabled_layouts)
    THEN Emit(S, <<Ev("log_error", 0, 0, "Tab")>>)
    ELSE Tab_relayout([S EXCEPT !.current_layout[t] = layout_name], t, r)

\* Tab.goto_layout
Tab_goto_layout(S, t, layout_name, r) ==
    IF Lower(layout_name) \notin Range(Tab_enabled_layouts)
    THEN Emit(S, <<Ev("log_error", 0, 0, "Tab")>>)
    ELSE Tab_relayout([S EXCEPT !.current_layout[t] = Lower(layout_name)], t, r)

\* Tab.new_window without overlay_for; the layout puts the window at p and returns r
Tab_new_window(S, t, p, r) ==
    LET window == S.next_window_id
        S1 == Emit([S EXCEPT !.next_window_id = @ + 1],
                   <<Ev("add_child", window, 0, "Tab")>>)
        S2 == Emit([S1 EXCEPT !.windows[t] = Layout_add_window(@, window, p)],
                   <<Ev("layout.add_window", window, t, "Tab")>>)
        S3 == Tab_active_window_idx(S2, t, r)
    IN  Emit(Tab_relayout_borders(S3, t), <<Ev("glfw_post_empty_event", 0, 0, "Tab")>>)

\* new_window that records the overlay on the new window only
Tab_new_window_overlay_for_OneWay(S, t, overlaid, p, r) ==
    IF overlaid = None THEN Tab_new_window(S, t, p, r)
    ELSE IF overlaid \notin Range(S.windows[t])
    THEN Emit([S EXCEPT !.next_window_id = @ + 1], <<Ev("raise", 0, 0, "Tab")>>)
    ELSE Tab_new_window([S EXCEPT !.overlay_for[S.next_window_id] = overlaid],
                        t, p, r)

\* Tab.new_window with its overlay_for argument (overlaid).  The Window is constructed
\* first; `next(w for w in self.windows if w.id == overlay_for)` raises
\* StopIteration when no window of the tab has that id, before add_child and the
\* layout are reached; otherwise the two windows are linked and the call goes on
\* as without overlay_for.
Tab_new_window_overlay_for(S, t, overlaid, p, r) ==
    IF overlaid = None THEN Tab_new_window(S, t, p, r)
    ELSE IF overlaid \notin Range(S.windows[t])
    THEN Emit([S EXCEPT !.next_window_id = @ + 1], <<Ev("raise", 0, 0, "Tab")>>)
    ELSE Tab_new_window([S EXCEPT !.overlay_for[S.next_window_id] = overlaid,
                                  !.overlay_window_id[overlaid] = S.next_window_id],
                        t, p, r)

\* Tab.remove_window
Tab_remove_window(S, t, window, r) ==
    LET S1 == Emit([S EXCEPT !.windows[t] = Layout_remove_window(@, window)],
                   <<Ev("layout.remove_window", window, t, "Tab")>>)
        S2 == Tab_active_window_idx(S1, t, r)
        S3 == Emit(S2, <<Ev("remove_window", window, t, "native")>>)
    IN  Emit(Tab_relayout_borders(S3, t), <<Ev("glfw_post_empty_event", 0, 0, "Tab")>>)

\* Tab.close_window
Tab_close_window(S, t, r) ==
    IF S.windows[t] # <<>>
    THEN IF PyIndex(S.windows[t], S.active_window_idx[t]) = Raise
         THEN Emit(S, <<Ev("raise", 0, 0, "Tab")>>)
         ELSE Tab_remove_window(S, t, PyIndex(S.windows[t], S.active_window_idx[t]), r)
    ELSE S

\* Tab.set_active_window_idx
Tab_set_active_window_idx(S, t, idx, r) ==
    IF idx # S.active_window_idx[t]
    THEN Emit(Tab_relayout_borders(Tab_active_window_idx(S, t, r), t),
              <<Ev("glfw_post_empty_event", 0, 0, "Tab")>>)
    ELSE S

\* Tab.nth_window
Tab_nth_window(S, t, num, r) ==
    IF S.windows[t] # <<>>
    THEN Emit(Tab_relayout_borders(Tab_active_window_idx(S, t, r), t),
              <<Ev("glfw_post_empty_event", 0, 0, "Tab")>>)
    ELSE S

\* Tab._next_window (next_window is delta = 1, previous_window is delta = -1)
Tab_next_window(S, t, delta, r) ==
    IF Len(S.windows[t]) > 1
    THEN Emit(Tab_relayout_borders(Tab_active_window_idx(S, t, r), t),
              <<Ev("glfw_post_empty_event", 0, 0, "Tab")>>)
    ELSE S

\* Tab.move_window; r is what layout.move_window returns, r2 what the relayout returns
Tab_move_window(S, t, delta, r, r2) ==
    LET S1 == [S EXCEPT !.windows[t] = Layout_move_window(@, S.active_window_idx[t], delta)]
        S2 == Tab_active_window_idx(S1, t, r)
        S3 == Tab_relayout(S2, t, r2)
    IN  Emit(S3, <<Ev("glfw_post_empty_event", 0, 0, "Tab")>>)

RECURSIVE Tab_destroy_windows(_, _)
Tab_destroy_windows(ws, i) ==
    IF i > Len(ws) THEN <<>>
    ELSE <<Ev("window.destroy", ws[i], 0, "Tab")>> \o Tab_destroy_windows(ws, i + 1)

\* destroy that evicts the cached layouts after the windows are gone
Tab_destroy_EvictLast(S, t) ==
    LET S1 == Emit(S, Tab_destroy_windows(S.windows[t], 1))
        S2 == Emit(S1, <<Ev("evict_cached_layouts", t, 0, "Tab")>>)
    IN  [S2 EXCEPT !.windows[t] = <<>>]

\* Tab.destroy
Tab_destroy(S, t) ==
    LET S1 == Emit(S, <<Ev("evict_cached_layouts", t, 0, "Tab")>>)
        S2 == Emit(S1, Tab_destroy_windows(S1.windows[t], 1))
    IN  [S2 EXCEPT !.windows[t] = <<>>]

\* Tab.__init__ for a tab that starts with one window (session_tab None, or a
\* session tab holding one command whose active_window_idx is 0)
Tab_init(S, r) ==
    LET t == S.next_tab_id
        S1 == Emit([S EXCEPT !.next_tab_id = @ + 1, !.active_window_idx[t] = 0,
                             !.current_layout[t] = Tab_enabled_layouts[1],
                             !.windows[t] = <<>>],
                   <<Ev("add_tab", t, 0, "native")>>)
    IN  Tab_new_window(S1, t, 0, r)

-----------------------------------------------------------------------------
(* class TabManager *)

\* TabManager.active_tab (property)
TabManager_active_tab(S) ==
    IF S.tabs # <<>> THEN PyIndex(S.tabs, S.active_tab_idx) ELSE None

\* TabManager.mark_tab_bar_dirty
TabManager_mark_tab_bar_dirty(S) ==
    IF Len(S.tabs) > 1 THEN Emit(S, <<Ev("mark_tab_bar_dirty", 0, 0, "native")>>) ELSE S

\* `self.active_tab_history.append(...)` and the popleft that caps the deque
TabManager_history_append_DropNewest(hist, tab_id) ==
    IF Len(Append(hist, tab_id)) > HistoryCap THEN Front(Append(hist, tab_id))
    ELSE Append(hist, tab_id)
TabManager_history_append(hist, tab_id) ==
    IF Len(Append(hist, tab_id)) > HistoryCap THEN Tail(Append(hist, tab_id))
    ELSE Append(hist, tab_id)

\* `max(0, min(val, len(self.tabs) - 1))` of the active_tab_idx setter
TabManager_clamp_NoUpper(val, n) == Max(0, val)
TabManager_clamp(val, n) == Max(0, Min(val, n - 1))

\* TabManager.active_tab_idx (setter)
TabManager_active_tab_idx(S, val) ==
    LET old_active_tab == TryAt0(S.tabs, S.active_tab_idx)
        found == old_active_tab # None
        h2 == IF found THEN TabManager_history_append(S.active_tab_history, old_active_tab)
              ELSE S.active_tab_history
        e1 == (IF found THEN <<Ev("history.append", old_active_tab, 0, "TabManager")>>
               ELSE <<>>)
           \o (IF found /\ Len(S.active_tab_history) + 1 > HistoryCap
               THEN <<Ev("history.popleft", 0, 0, "TabManager")>> ELSE <<>>)
        idx == TabManager_clamp(val, Len(S.tabs))
        new_active_tab == TryAt0(S.tabs, idx)
        S1 == Emit([S EXCEPT !.active_tab_history = h2, !.active_tab_idx = idx], e1)
        wo == IF old_active_tab # None THEN Tab_active_window(S1, old_active_tab) ELSE None
        wn == IF new_active_tab # None THEN Tab_active_window(S1, new_active_tab) ELSE None
    IN  IF old_active_tab # new_active_tab
        THEN Emit(S1,
                  (IF wo # None THEN <<Ev("focus_changed", wo, 0, "TabManager")>> ELSE <<>>)
               \o (IF wn # None THEN <<Ev("focus_changed", wn, 1, "TabManager")>> ELSE <<>>))
        ELSE S1

\* TabManager.resize(only_tabs=True): `for tab in self.tabs: tab.relayout()`,
\* rs[i] being what the layout of the i-th tab returns
RECURSIVE TabManager_resize_tabs(_, _, _)
TabManager_resize_tabs(S, rs, i) ==
    IF i > Len(S.tabs) THEN S
    ELSE TabManager_resize_tabs(Tab_relayout(S, S.tabs[i], rs[i]), rs, i + 1)

\* TabManager.tabbar_visibility_changed
TabManager_tabbar_visibility_changed(S, rs) ==
    LET S1 == Emit(S, <<Ev("tab_bar.layout", 0, 0, "TabManager")>>)
        S2 == TabManager_resize_tabs(S1, rs, 1)
    IN  Emit(S2, <<Ev("glfw_post_empty_event", 0, 0, "TabManager")>>)

\* TabManager._add_tab
TabManager_add_tab(S, tab, rs) ==
    LET before == Len(S.tabs)
        S1 == [S EXCEPT !.tabs = Append(@, tab)]
    IN  IF Len(S1.tabs) > 1 /\ before < 2
        THEN TabManager_tabbar_visibility_changed(S1, rs) ELSE S1

\* _remove_tab whose test forgets `before > 1`
TabManager_remove_tab_NoBefore(S, tab, rs) ==
    LET S1 == Emit(S, <<Ev("remove_tab", tab, 0, "native")>>)
        S2 == [S1 EXCEPT !.tabs = RemoveFirst(@, tab)]
    IN  IF Len(S2.tabs) < 2
        THEN TabManager_tabbar_visibility_changed(S2, rs) ELSE S2

\* TabManager._remove_tab
TabManager_remove_tab(S, tab, rs) ==
    LET before == Len(S.tabs)
        S1 == Emit(S, <<Ev("remove_tab", tab, 0, "native")>>)
        S2 == [S1 EXCEPT !.tabs = RemoveFirst(@, tab)]
    IN  IF Len(S2.tabs) < 2 /\ before > 1
        THEN TabManager_tabbar_visibility_changed(S2, rs) ELSE S2

\* TabManager._set_active_tab
TabManager_set_active_tab(S, idx) ==
    Emit(TabManager_active_tab_idx(S, idx), <<Ev("set_active_tab", idx, 0, "native")>>)

\* TabManager.set_active_tab_idx; with no tab, active_tab is None and the
\* relayout_borders call raises after the index has been assigned
TabManager_set_active_tab_idx(S, idx) ==
    LET S1 == TabManager_set_active_tab(S, idx)
    IN  IF TabManager_active_tab(S1) \in {None, Raise}
        THEN Emit(S1, <<Ev("raise", 0, 0, "TabManager")>>)
        ELSE TabManager_mark_tab_bar_dirty(
                 Tab_relayout_borders(S1, TabManager_active_tab(S1)))

\* next_tab that steps without wrapping around
TabManager_next_tab_NoWrap(S, delta) ==
    IF Len(S.tabs) > 1
    THEN TabManager_set_active_tab_idx(S, S.active_tab_idx + delta)
    ELSE S

\* TabManager.next_tab
TabManager_next_tab(S, delta) ==
    IF Len(S.tabs) > 1
    THEN TabManager_set_active_tab_idx(
             S, (S.active_tab_idx + Len(S.tabs) + delta) % Len(S.tabs))
    ELSE S

\* goto_tab that checks the upper bound only
TabManager_goto_tab_NoLower(S, tab_num) ==
    IF tab_num < Len(S.tabs)
    THEN TabManager_set_active_tab_idx(S, tab_num)
    ELSE S

\* TabManager.goto_tab
TabManager_goto_tab(S, tab_num) ==
    IF tab_num < Len(S.tabs) /\ 0 <= tab_num
    THEN TabManager_set_active_tab_idx(S, tab_num)
    ELSE S

\* TabManager.move_tab
TabManager_move_tab_KeepIndex(S, delta) ==
    IF Len(S.tabs) > 1
    THEN LET idx == S.active_tab_idx
             nidx == (idx + Len(S.tabs) + delta) % Len(S.tabs)
             S1 == [S EXCEPT !.tabs = Swap0(@, idx, nidx)]
             S2 == Emit(S1, <<Ev("swap_tabs", idx, nidx, "native")>>)
         IN  TabManager_mark_tab_bar_dirty(TabManager_set_active_tab(S2, idx))
    ELSE S

\* move_tab that hands the native layer a different index pair
TabManager_move_tab_WrongPair(S, delta) ==
    IF Len(S.tabs) > 1
    THEN LET idx == S.active_tab_idx
             nidx == (idx + Len(S.tabs) + delta) % Len(S.tabs)
             S1 == [S EXCEPT !.tabs = Swap0(@, idx, nidx)]
             S2 == Emit(S1, <<Ev("swap_tabs", idx, idx, "native")>>)
         IN  TabManager_mark_tab_bar_dirty(TabManager_set_active_tab(S2, nidx))
    ELSE S

TabManager_move_tab(S, delta) ==
    IF Len(S.tabs) > 1
    THEN LET idx == S.active_tab_idx
             nidx == (idx + Len(S.tabs) + delta) % Len(S.tabs)
             S1 == [S EXCEPT !.tabs = Swap0(@, idx, nidx)]
             S2 == Emit(S1, <<Ev("swap_tabs", idx, nidx, "native")>>)
         IN  TabManager_mark_tab_bar_dirty(TabManager_set_active_tab(S2, nidx))
    ELSE S

\* TabManager.new_tab
TabManager_new_tab(S, r, rs) ==
    LET idx == Len(S.tabs)
        S1 == TabManager_add_tab(Tab_init(S, r), S.next_tab_id, rs)
    IN  TabManager_mark_tab_bar_dirty(TabManager_set_active_tab(S1, idx))

\* The `while self.active_tab_history and next_active_tab < 0` loop of
\* TabManager.remove: the history left and the index found (-1 when none)
RECURSIVE TabManager_remove_pop_Oldest(_, _, _)
TabManager_remove_pop_Oldest(hist, tab, ts) ==
    IF hist = <<>> THEN [hist |-> hist, next_active_tab |-> 0 - 1]
    ELSE LET tab_id == Head(hist)
         IN  IF tab_id = tab THEN TabManager_remove_pop_Oldest(Tail(hist), tab, ts)
             ELSE IF tab_id \in Range(ts)
                  THEN [hist |-> Tail(hist), next_active_tab |-> IndexOf0(ts, tab_id)]
                  ELSE TabManager_remove_pop_Oldest(Tail(hist), tab, ts)

RECURSIVE TabManager_remove_pop(_, _, _)
TabManager_remove_pop(hist, tab, ts) ==
    IF hist = <<>> THEN [hist |-> hist, next_active_tab |-> 0 - 1]
    ELSE LET tab_id == Last(hist)
         IN  IF tab_id = tab THEN TabManager_remove_pop(Front(hist), tab, ts)
             ELSE IF tab_id \in Range(ts)
                  THEN [hist |-> Front(hist), next_active_tab |-> IndexOf0(ts, tab_id)]
                  ELSE TabManager_remove_pop(Front(hist), tab, ts)

\* TabManager.remove
TabManager_remove(S, tab, rs) ==
    LET S1 == TabManager_remove_tab(S, tab, rs)
        popped == TabManager_remove_pop(S1.active_tab_history, tab, S1.tabs)
        S2 == [S1 EXCEPT !.active_tab_history = popped.hist]
        next_active_tab ==
            IF popped.next_active_tab < 0
            THEN Max(0, Min(S2.active_tab_idx, Len(S2.tabs) - 1))
            ELSE popped.next_active_tab
        S3 == TabManager_mark_tab_bar_dirty(TabManager_set_active_tab(S2, next_active_tab))
    IN  Tab_destroy(S3, tab)

\* tab_bar_data that looks at the first window of each tab only
TabManager_tab_bar_data_FirstWindow(S) ==
    LET at == TabManager_active_tab(S)
    IN  [i \in 1..Len(S.tabs) |->
            [tab |-> S.tabs[i],
             is_active |-> S.tabs[i] = at,
             is_last |-> S.tabs[i] = PyIndex(S.tabs, 0 - 1),
             needs_attention |-> /\ S.windows[S.tabs[i]] # <<>>
                                 /\ S.windows[S.tabs[i]][1] \in S.needs_attention]]

\* TabManager.tab_bar_data (property): the list of TabBarData records.  The
\* title of a record, taken from the tab's name or its active window's title,
\* is represented by the tab the record was made for.
TabManager_tab_bar_data(S) ==
    LET at == TabManager_active_tab(S)
    IN  [i \in 1..Len(S.tabs) |->
            [tab |-> S.tabs[i],
             is_active |-> S.tabs[i] = at,
             is_last |-> S.tabs[i] = PyIndex(S.tabs, 0 - 1),
             needs_attention |-> \E k \in 1..Len(S.windows[S.tabs[i]]) :
                                     S.windows[S.tabs[i]][k] \in S.needs_attention]]

\* `for t in self: t.destroy()` of TabManager.destroy
RECURSIVE TabManager_destroy_tabs(_, _, _)
TabManager_destroy_tabs(S, ts, i) ==
    IF i > Len(ts) THEN S
    ELSE TabManager_destroy_tabs(Tab_destroy(S, ts[i]), ts, i + 1)

\* TabManager.destroy; the deleted tabs attribute is left as the empty list
TabManager_destroy(S) ==
    LET S1 == TabManager_destroy_tabs(S, S.tabs, 1)
        S2 == Emit(S1, <<Ev("tab_bar.destroy", 0, 0, "TabManager")>>)
    IN  [S2 EXCEPT !.tabs = <<>>]

\* TabManager.__init__ for a startup session of n one-window tabs
RECURSIVE TabManager_init_tabs(_, _, _, _)
TabManager_init_tabs(S, n, r, rs) ==
    IF n = 0 THEN S
    ELSE LET S1 == TabManager_init_tabs(S, n - 1, r, rs)
         IN  TabManager_add_tab(Tab_init(S1, r), S1.next_tab_id, rs)

Fresh == [tabs |-> <<>>, active_tab_idx |-> 0, active_tab_history |-> <<>>,
          windows |-> [t \in TabIds |-> <<>>],
          active_window_idx |-> [t \in TabIds |-> 0],
          next_tab_id |-> 1, next_window_id |-> 1,
          overlay_for |-> [w \in WindowIds |-> None],
          overlay_window_id |-> [w \in WindowIds |-> None],
          current_layout |-> [t \in TabIds |-> <<>>],
          needs_attention |-> {}, trace |-> <<>>]

TabManager_init(n, session_active_tab_idx, r, rs) ==
    LET S1 == TabManager_init_tabs(Fresh, n, r, rs)
    IN  TabManager_set_active_tab(
            S1, Max(0, Min(session_active_tab_idx, Len(S1.tabs) - 1)))

-----------------------------------------------------------------------------
(* Initial states and actions *)

\* Returns of the layouts relayouted by tabbar_visibility_changed, one per tab
Relayouts(k) == [1..k -> LayoutRet]

\* The collaborators before the manager is constructed
NoFocus == {}
NoNative == [tabs |-> <<>>, active_tab |-> 0]
NoEvicted == [t \in TabIds |-> 0]

SetTo(S, op, a, b) ==
    /\ tabs = S.tabs
    /\ active_tab_idx = S.active_tab_idx
    /\ active_tab_history = S.active_tab_history
    /\ windows = S.windows
    /\ active_window_idx = S.active_window_idx
    /\ next_tab_id = S.next_tab_id
    /\ next_window_id = S.next_window_id
    /\ overlay_for = S.overlay_for
    /\ overlay_window_id = S.overlay_window_id
    /\ current_layout = S.current_layout
    /\ needs_attention = S.needs_attention
    /\ focused = IF observed THEN Window_focus_changed(NoFocus, S.trace) ELSE NoFocus
    /\ native = IF observed THEN Native_calls(NoNative, S.trace, 1) ELSE NoNative
    /\ evicted = IF observed THEN Layout_evict_cached_layouts(NoEvicted, S.trace)
                 ELSE NoEvicted
    /\ trace = S.trace
    /\ last = [op |-> op, a |-> a, b |-> b, r |-> 0, pre |-> Pre(Fresh)]

\* TabManager(...) for a startup session of n one-window tabs with tab a active
Construct ==
    \E n \in 0..MaxTabs, a \in 0..(MaxTabs - 1), r \in LayoutRet, rs \in Relayouts(2) :
        SetTo(TabManager_init(n, a, r, rs), "__init__", n, a)

Init == observed = FALSE /\ Construct

\* The same start, with the collaborators' side of the calls followed
InitObserved == observed = TRUE /\ Construct

HistoryRoom == Len(active_tab_history) < MaxHistory

NewTab ==
    /\ Len(tabs) < MaxTabs /\ next_tab_id <= MaxTabId
    /\ HistoryRoom
    /\ \E r \in LayoutRet, rs \in Relayouts(IF Len(tabs) = 1 THEN 2 ELSE 0) :
           Commit(TabManager_new_tab(Cur, r, rs), "new_tab", next_tab_id, 0, 0)

Remove ==
    \E i \in 1..Len(tabs) :
        \E rs \in Relayouts(IF Len(tabs) = 2 THEN 1 ELSE 0) :
            Commit(TabManager_remove(Cur, tabs[i], rs), "remove", tabs[i], 0, 0)

MoveTab ==
    /\ HistoryRoom
    /\ \E delta \in Deltas : Commit(TabManager_move_tab(Cur, delta), "move_tab", delta, 0, 0)

NextTab ==
    /\ HistoryRoom
    /\ \E delta \in Deltas : Commit(TabManager_next_tab(Cur, delta), "next_tab", delta, 0, 0)

GotoTab ==
    /\ HistoryRoom
    /\ \E n \in (0 - 1)..MaxTabs : Commit(TabManager_goto_tab(Cur, n), "goto_tab", n, 0, 0)

SetActiveTabIdx ==
    /\ HistoryRoom
    /\ \E idx \in (0 - 1)..MaxTabs :
           Commit(TabManager_set_active_tab_idx(Cur, idx), "set_active_tab_idx", idx, 0, 0)

\* Operations on one tab t of the manager.  a, b are the operation's arguments,
\* r the index its layout call returns.
NewWindow(t) ==
    /\ Len(windows[t]) < MaxWindows /\ next_window_id <= MaxWindowId
    /\ \E p \in 0..Len(windows[t]), r \in LayoutRet :
           Commit(Tab_new_window(Cur, t, p, r), "new_window", next_window_id, t, r)

NewOverlayWindow(t) ==
    /\ Len(windows[t]) < MaxWindows /\ next_window_id <= MaxWindowId
    /\ \E overlaid \in WindowIds, p \in 0..Len(windows[t]), r \in LayoutRet :
           Commit(Tab_new_window_overlay_for(Cur, t, overlaid, p, r),
                  "new_window_overlay", overlaid, t, r)

CloseWindow(t) ==
    \E r \in LayoutRet : Commit(Tab_close_window(Cur, t, r), "close_window", 0, t, r)

RemoveWindow(t) ==
    \E w \in Range(windows[t]), r \in LayoutRet :
        Commit(Tab_remove_window(Cur, t, w, r), "remove_window", w, t, r)

SetActiveWindowIdx(t) ==
    \E idx \in 0..MaxWindows, r \in LayoutRet :
        Commit(Tab_set_active_window_idx(Cur, t, idx, r), "set_active_window_idx", idx, t, r)

NthWindow(t) ==
    \E num \in 0..1, r \in LayoutRet :
        Commit(Tab_nth_window(Cur, t, num, r), "nth_window", num, t, r)

NextWindow(t) ==
    \E r \in LayoutRet : Commit(Tab_next_window(Cur, t, 1, r), "next_window", 1, t, r)

PreviousWindow(t) ==
    \E r \in LayoutRet :
        Commit(Tab_next_window(Cur, t, 0 - 1, r), "previous_window", 0 - 1, t, r)

MoveWindow(t) ==
    \E delta \in Deltas, r \in LayoutRet, r2 \in LayoutRet :
        Commit(Tab_move_window(Cur, t, delta, r, r2), "move_window", delta, t, r)

Relayout(t) ==
    \E r \in LayoutRet : Commit(Tab_relayout(Cur, t, r), "relayout", 0, t, r)

GotoLayout(t) ==
    \E layout_name \in LayoutNames, r \in LayoutRet :
        Commit(Tab_goto_layout(Cur, t, layout_name, r), "goto_layout", layout_name, t, r)

NextLayout(t) ==
    \E r \in LayoutRet : Commit(Tab_next_layout(Cur, t, r), "next_layout", 0, t, r)

\* A window of the manager raises (flag = 1) or drops (flag = 0) its
\* needs_attention flag
SetNeedsAttention ==
    \E t \in Range(tabs) : \E w \in Range(windows[t]), flag \in {0, 1} :
        Commit([Cur EXCEPT !.needs_attention =
                               IF flag = 1 THEN @ \cup {w} ELSE @ \ {w}],
               "needs_attention", w, t, flag)

\* Reading the tab_bar_data property; r holds the list it returns
TabBarData == Commit(Cur, "tab_bar_data", 0, 0, TabManager_tab_bar_data(Cur))

Next == NewTab \/ Remove \/ MoveTab \/ NextTab \/ GotoTab \/ SetActiveTabIdx

Spec == Init /\ [][Next]_vars

\* A manager holding one tab, driven through the Tab operations alone
InitTab == Init /\ Len(tabs) = 1

NextInTab ==
    \/ \E t \in Range(tabs) : NewWindow(t)
    \/ \E t \in Range(tabs) : CloseWindow(t)
    \/ \E t \in Range(tabs) : RemoveWindow(t)
    \/ \E t \in Range(tabs) : SetActiveWindowIdx(t)
    \/ \E t \in Range(tabs) : NthWindow(t)
    \/ \E t \in Range(tabs) : NextWindow(t)
    \/ \E t \in Range(tabs) : PreviousWindow(t)
    \/ \E t \in Range(tabs) : MoveWindow(t)
    \/ \E t \in Range(tabs) : Relayout(t)

SpecTab == InitTab /\ [][NextInTab]_vars

\* One tab whose windows are opened, plainly or as overlays, and removed
NextOverlay ==
    \/ \E t \in Range(tabs) : NewWindow(t)
    \/ \E t \in Range(tabs) : NewOverlayWindow(t)
    \/ \E t \in Range(tabs) : CloseWindow(t)
    \/ \E t \in Range(tabs) : RemoveWindow(t)

SpecOverlay == InitTab /\ [][NextOverlay]_vars

\* One tab whose layout is changed while windows are opened and closed
NextInLayout ==
    \/ \E t \in Range(tabs) : GotoLayout(t)
    \/ \E t \in Range(tabs) : NextLayout(t)
    \/ \E t \in Range(tabs) : NewWindow(t)
    \/ \E t \in Range(tabs) : CloseWindow(t)

SpecLayout == InitTab /\ [][NextInLayout]_vars

\* The manager with tabs of one or more windows whose attention flags change,
\* its tab bar being drawn at any time
NextBar ==
    \/ NewTab
    \/ NextTab
    \/ \E t \in Range(tabs) : NewWindow(t)
    \/ SetNeedsAttention
    \/ TabBarData

SpecBar == Init /\ [][NextBar]_vars

\* A manager cycling through its tabs for as long as it takes to fill the history
CycleTab == Commit(TabManager_next_tab(Cur, 1), "next_tab", 1, 0, 0)

SpecCap == Init /\ [][CycleTab]_vars

\* The manager through new_tab and remove (and new_window, for tabs of more than
\* one window) up to its destroy, after which it takes no further call
Destroy == Commit(TabManager_destroy(Cur), "destroy", 0, 0, 0)

Alive == last.op # "destroy"

NextTeardown ==
    \/ Alive /\ NewTab
    \/ Alive /\ Remove
    \/ Alive /\ \E t \in Range(tabs) : NewWindow(t)
    \/ Alive /\ Destroy

SpecTeardown == InitObserved /\ [][NextTeardown]_vars

\* The manager driven through new_tab, remove, move_tab, next_tab and goto_tab
NextOps == NewTab \/ Remove \/ MoveTab \/ NextTab \/ GotoTab

SpecOps == InitObserved /\ [][NextOps]_vars

-----------------------------------------------------------------------------
(* Properties.  They read the operation just completed from `last` (its     *)
(* name, arguments and the state it started in) and `trace` (the calls it   *)
(* made), and the state it ended in from the variables.                     *)

ManagerOps == {"new_tab", "remove", "move_tab", "next_tab", "goto_tab", "set_active_tab_idx"}
IndexOps == {"new_window", "remove_window", "close_window", "next_window",
             "previous_window", "nth_window", "move_window", "set_active_window_idx"}

PreActiveTab ==
    IF last.pre.tabs = <<>> THEN None ELSE At0(last.pre.tabs, last.pre.active_tab_idx)
PostActiveTab == IF tabs = <<>> THEN None ELSE At0(tabs, active_tab_idx)
PreActiveWindow(t) ==
    IF t = None \/ last.pre.windows[t] = <<>> THEN None
    ELSE At0(last.pre.windows[t], last.pre.active_window_idx[t])
PostActiveWindow(t) ==
    IF t = None \/ windows[t] = <<>> THEN None
    ELSE At0(windows[t], active_window_idx[t])

IsFocus(e) == e.call = "focus_changed"
\* The focus_changed calls of the last operation, in order, as <<window, flag>>
FocusCalls ==
    LET f == SelectSeq(trace, IsFocus) IN [i \in 1..Len(f) |-> <<f[i].a, f[i].b>>]
IsManagerFocus(e) == e.call = "focus_changed" /\ e.by = "TabManager"
LoseThenGain(old, new) ==
    (IF old # None THEN <<<<old, 0>>>> ELSE <<>>) \o (IF new # None THEN <<<<new, 1>>>> ELSE <<>>)

\* C1: after every Tab operation, whatever index the layout returned, a tab's
\* window collection is empty or 0 <= active_window_idx < len(windows).
C1_WindowIndexValid ==
    \A t \in TabIds :
        windows[t] = <<>> \/ (0 <= active_window_idx[t] /\ active_window_idx[t] < Len(windows[t]))

\* a removal after which the layout returned an index past the end of the
\* windows that are left
C1_Witness ==
    /\ last.op \in {"remove_window", "close_window"}
    /\ windows[last.b] # <<>>
    /\ last.r >= Len(windows[last.b])
    /\ last.pre.active_window_idx[last.b] = Len(last.pre.windows[last.b]) - 1

\* C2: after every TabManager operation the tab list is empty or
\* 0 <= active_tab_idx < len(tabs).
C2_TabIndexValid ==
    tabs = <<>> \/ (0 <= active_tab_idx /\ active_tab_idx < Len(tabs))

\* set_active_tab_idx was given an index past the last tab
C2_Witness ==
    /\ last.op = "set_active_tab_idx"
    /\ tabs # <<>>
    /\ last.a >= Len(tabs)
    /\ last.pre.active_tab_idx < Len(tabs) - 1

\* C3: a TabManager operation that leaves a different tab active sends exactly
\* focus_changed(False) to the active window of the tab that was active and then
\* focus_changed(True) to the active window of the tab that is active now
\* (stated for the operations that start and end with an active tab).
C3_FocusPairOnTabChange ==
    (/\ last.op \in ManagerOps
     /\ PreActiveTab # None /\ PostActiveTab # None
     /\ PreActiveTab # PostActiveTab)
        => FocusCalls = LoseThenGain(PreActiveWindow(PreActiveTab),
                                     PostActiveWindow(PostActiveTab))

\* C4: a TabManager operation that leaves the same tab active makes the
\* active-tab index setter send no focus_changed call.
C4_NoFocusOnSameTab ==
    (/\ last.op \in ManagerOps \ {"new_tab"}
     /\ PreActiveTab # None
     /\ PreActiveTab = PostActiveTab)
        => SelectSeq(trace, IsManagerFocus) = <<>>

\* The layout did what the Tab expects of it in the last operation: a new window
\* went to the end of the collection, the index returned lies in the collection,
\* and move_window returned the position the moved window now has
LayoutAsExpected ==
    /\ last.op = "new_window" => Last(windows[last.b]) = last.a
    /\ windows[last.b] # <<>> => InRange(windows[last.b], last.r)
    /\ (last.op = "move_window" /\ windows[last.b] # <<>>)
           => At0(windows[last.b], last.r) = PreActiveWindow(last.b)

\* C5: a Tab operation that applies a layout-returned index and leaves a
\* different window active sends exactly focus_changed(False) to the window that
\* was active (if any) and then focus_changed(True) to the window active now
\* (stated for the operations that leave the tab with an active window).
C5_FocusPairOnWindowChange ==
    (/\ last.op \in IndexOps
     /\ LayoutAsExpected
     /\ PostActiveWindow(last.b) # None
     /\ PreActiveWindow(last.b) # PostActiveWindow(last.b))
        => FocusCalls = LoseThenGain(PreActiveWindow(last.b), PostActiveWindow(last.b))

\* C6: a Tab operation that applies a layout-returned index and leaves the same
\* window active sends no focus_changed call; for move_window the layout returns
\* the position the moved window now has.
C6_NoFocusOnSameWindow ==
    (/\ last.op \in IndexOps
     /\ LayoutAsExpected
     /\ PreActiveWindow(last.b) # None
     /\ PreActiveWindow(last.b) = PostActiveWindow(last.b))
        => FocusCalls = <<>>

\* The positions of the history entries remove(T) may reactivate: those that are
\* not T's id and are the id of a tab that stays in the list
Reactivable(hist, T, ts) == {i \in 1..Len(hist) : hist[i] # T /\ hist[i] \in Range(ts) \ {T}}
Greatest(I) == CHOOSE i \in I : \A j \in I : j <= i

\* C7: after remove(T) the active tab is the most recent entry of the history, as
\* it stood at the call, that is not T and is still in the list; with no such
\* entry the active index is the previous one clamped into the shortened list.
C7_HistoryReactivation ==
    last.op = "remove" =>
        LET T == last.a
            hist == last.pre.active_tab_history
            I == Reactivable(hist, T, last.pre.tabs)
        IN  IF I # {}
            THEN PostActiveTab = hist[Greatest(I)]
            ELSE /\ tabs # <<>> => active_tab_idx = Min(last.pre.active_tab_idx, Len(tabs) - 1)
                 /\ tabs = <<>> => active_tab_idx = 0

\* tabs [A, B, C] with C active and B the last tab left: removing C activates B
C7_Witness ==
    /\ last.op = "remove"
    /\ Len(last.pre.tabs) = 3
    /\ last.pre.active_tab_idx = 2
    /\ last.a = last.pre.tabs[3]
    /\ Last(last.pre.active_tab_history) = last.pre.tabs[2]
    /\ tabs = SubSeq(last.pre.tabs, 1, 2)
    /\ active_tab_idx = 1

IsHistoryAppend(e) == e.call = "history.append"
IsHistoryPopleft(e) == e.call = "history.popleft"

\* C8: every id a new_tab, remove, move_tab, next_tab or goto_tab appends to the
\* history is the id of the tab that was active when the operation started
\* (stated for the operations that start with an active tab).
C8_HistoryRecordsOutgoingTab ==
    (last.op \in {"new_tab", "remove", "move_tab", "next_tab", "goto_tab"}
        /\ PreActiveTab # None) =>
        \A i \in 1..Len(trace) : IsHistoryAppend(trace[i]) => trace[i].a = PreActiveTab

\* C9: the history never holds more than 64 ids, and an append to a full
\* history drops its oldest entry, so the ids stay in push order.
C9_RecencyCap ==
    /\ Len(active_tab_history) <= 64
    /\ (last.op = "next_tab" /\ SelectSeq(trace, IsHistoryAppend) # <<>>) =>
           LET pushed == SelectSeq(trace, IsHistoryAppend)[1].a
               before == last.pre.active_tab_history
           IN  active_tab_history =
                   IF Len(before) < 64 THEN Append(before, pushed)
                   ELSE Append(Tail(before), pushed)

\* an append to a history of 64 ids whose oldest entry differs from the next one
C9_Witness ==
    /\ last.op = "next_tab"
    /\ Len(last.pre.active_tab_history) = 64
    /\ SelectSeq(trace, IsHistoryPopleft) # <<>>
    /\ Len(active_tab_history) = 64
    /\ last.pre.active_tab_history[1] # last.pre.active_tab_history[2]

IsNative(e) == e.by = "native"

\* C10: with more than one tab move_tab(delta) keeps the active tab and puts it at
\* (old_idx + delta) mod len(tabs), the tab that was there goes to old_idx and the
\* others stay; with one tab it changes nothing and makes no native call.
C10_MovePreservesIdentity ==
    last.op = "move_tab" =>
        LET old == last.pre.tabs
            n == Len(old)
            old_idx == last.pre.active_tab_idx
            nidx == (old_idx + last.a) % n
        IN  /\ n > 1 =>
                /\ Len(tabs) = n
                /\ active_tab_idx = nidx
                /\ PostActiveTab = PreActiveTab
                /\ At0(tabs, old_idx) = At0(old, nidx)
                /\ \A k \in 0..(n - 1) : k \notin {old_idx, nidx} => At0(tabs, k) = At0(old, k)
            /\ n = 1 =>
                /\ tabs = old
                /\ active_tab_idx = old_idx
                /\ active_tab_history = last.pre.active_tab_history
                /\ SelectSeq(trace, IsNative) = <<>>

\* three tabs, a negative delta larger than the tab count, the tab really moves
C10_Witness ==
    /\ last.op = "move_tab"
    /\ Len(tabs) = 3
    /\ last.a = 0 - BigDelta
    /\ active_tab_idx # last.pre.active_tab_idx
    /\ tabs # last.pre.tabs

IsTabBarLayout(e) == e.call = "tab_bar.layout"
IsSetActiveTab(e) == e.call = "set_active_tab" /\ e.by = "native"

\* C11: tabbar_visibility_changed runs during a new_tab or a remove exactly when
\* the operation takes the tab count from 1 to 2 or from 2 to 1, and then once;
\* the _add_tab calls of the constructor run it once when they pass from 1 to 2.
C11_TabBarBoundary ==
    LET runs == Len(SelectSeq(trace, IsTabBarLayout))
        before == Len(last.pre.tabs)
        after == Len(tabs)
    IN  /\ last.op \in {"new_tab", "remove"} =>
               runs = IF (before = 1 /\ after = 2) \/ (before = 2 /\ after = 1) THEN 1 ELSE 0
        /\ last.op = "__init__" => runs = IF after >= 2 THEN 1 ELSE 0

\* the removal that takes the manager from two tabs to one
C11_Witness ==
    /\ last.op = "remove"
    /\ Len(last.pre.tabs) = 2 /\ Len(tabs) = 1
    /\ SelectSeq(trace, IsTabBarLayout) # <<>>

\* C12: goto_tab(n) with n < 0 or n >= len(tabs) leaves the tab order,
\* active_tab_idx and the history as they were and makes no focus_changed and no
\* native set_active_tab call; with 0 <= n < len(tabs) it sets active_tab_idx to n.
C12_GotoTabBounds ==
    last.op = "goto_tab" =>
        IF 0 <= last.a /\ last.a < Len(last.pre.tabs)
        THEN active_tab_idx = last.a
        ELSE /\ tabs = last.pre.tabs
             /\ active_tab_idx = last.pre.active_tab_idx
             /\ active_tab_history = last.pre.active_tab_history
             /\ FocusCalls = <<>>
             /\ SelectSeq(trace, IsSetActiveTab) = <<>>

\* goto_tab(-1) on a manager whose last tab is not the active one
C12_Witness ==
    /\ last.op = "goto_tab"
    /\ last.a = 0 - 1
    /\ Len(tabs) >= 2
    /\ active_tab_idx # Len(tabs) - 1

\* C13: with more than one tab next_tab(delta) sets active_tab_idx to
\* (old active_tab_idx + delta) mod len(tabs) for every integer delta; with one
\* tab or none it changes neither the index nor the history and notifies no window.
C13_NextTabCyclic ==
    last.op = "next_tab" =>
        LET n == Len(last.pre.tabs)
        IN  IF n > 1
            THEN active_tab_idx = (last.pre.active_tab_idx + last.a) % n
            ELSE /\ active_tab_idx = last.pre.active_tab_idx
                 /\ active_tab_history = last.pre.active_tab_history
                 /\ FocusCalls = <<>>

\* three tabs and a negative step larger than the tab count
C13_Witness ==
    /\ last.op = "next_tab"
    /\ Len(tabs) = 3
    /\ last.a = 0 - BigDelta
    /\ active_tab_idx # last.pre.active_tab_idx

\* C19: remove(T) of a tab T that is not the active one, in a manager of at
\* least two tabs, leaves the tab that was active as the active tab.
C19_BackgroundRemoveKeepsActive ==
    (/\ last.op = "remove"
     /\ Len(last.pre.tabs) >= 2
     /\ last.a # PreActiveTab)
        => PostActiveTab = PreActiveTab

IsSwapTabs(e) == e.call = "swap_tabs" /\ e.by = "native"

\* C18: after the constructor and after each new_tab, remove, move_tab, next_tab
\* and goto_tab, the native tab list built from the add_tab, remove_tab, swap_tabs
\* and set_active_tab calls made so far has the order of tabs and its last set
\* index is active_tab_idx; the swap_tabs call of a move_tab carries the pair of
\* indices move_tab swapped in tabs.
C18_NativeMirrorInSync ==
    /\ native.tabs = tabs
    /\ native.active_tab = active_tab_idx
    /\ (last.op = "move_tab" /\ Len(last.pre.tabs) > 1) =>
           LET sw == SelectSeq(trace, IsSwapTabs)
           IN  /\ Len(sw) = 1
               /\ sw[1].a = last.pre.active_tab_idx
               /\ sw[1].b = active_tab_idx
               /\ tabs = Swap0(last.pre.tabs, sw[1].a, sw[1].b)

\* a move_tab that changed the order of three tabs
C18_Witness ==
    /\ last.op = "move_tab"
    /\ Len(tabs) = 3
    /\ tabs # last.pre.tabs
    /\ native.tabs = tabs

\* The windows of the tabs the manager holds
LiveWindows == UNION {Range(windows[t]) : t \in Range(tabs)}

\* C20: after each new_tab, remove, move_tab, next_tab and goto_tab no window of
\* the manager other than the active window of the active tab is focused (its
\* latest focus_changed call was True), so at most one window is focused.
C20_SingleFocusHolder ==
    \A w \in focused \cap LiveWindows : w = PostActiveWindow(PostActiveTab)

IsWindowDestroy(e) == e.call = "window.destroy"
\* The places in the trace of the last operation where call is made with argument a
Calls(call, a) == {i \in 1..Len(trace) : trace[i].call = call /\ trace[i].a = a}

\* C17: over new_tab, remove and a final destroy, the cached layouts of a tab id
\* have been evicted once if the tab was removed or torn down and never
\* otherwise; the eviction comes before the destruction of each of the tab's
\* windows, all of them are destroyed and the tab's window collection is empty
\* afterwards; in remove the tab has left the list and the native remove_tab and
\* set_active_tab calls have been made before any of its windows is destroyed.
C17_TeardownOrdering ==
    /\ \A t \in TabIds :
           /\ evicted[t] = IF t < next_tab_id /\ t \notin Range(tabs) THEN 1 ELSE 0
           /\ evicted[t] = 1 => windows[t] = <<>>
    /\ last.op \in {"remove", "destroy"} =>
           \A t \in (IF last.op = "remove" THEN {last.a} ELSE Range(last.pre.tabs)) :
               /\ Cardinality(Calls("evict_cached_layouts", t)) = 1
               /\ \A w \in Range(last.pre.windows[t]) :
                      /\ Calls("window.destroy", w) # {}
                      /\ \A j \in Calls("window.destroy", w) :
                             \E i \in Calls("evict_cached_layouts", t) : i < j
    /\ last.op = "remove" =>
           /\ last.a \notin Range(tabs)
           /\ \A j \in 1..Len(trace) : IsWindowDestroy(trace[j]) =>
                  /\ \E i \in Calls("remove_tab", last.a) : i < j
                  /\ \E i \in 1..(j - 1) : IsSetActiveTab(trace[i])

\* a destroy of a manager holding two tabs after another tab has been removed
C17_Witness ==
    /\ last.op = "destroy"
    /\ Len(last.pre.tabs) = 2
    /\ last.pre.tabs[1] # 1
    /\ \A t \in 1..(next_tab_id - 1) : evicted[t] = 1

\* C14: new_window with overlay_for the id of a window W1 of the tab yields a
\* window W2 of the tab with W2.overlay_for = W1 and W1.overlay_window_id = W2;
\* with an overlay_for that is the id of no window of the tab the call fails,
\* the tab's windows and active_window_idx are as before, and neither add_child
\* nor the layout's add_window has been called.
C14_OverlayLinkage ==
    last.op = "new_window_overlay" =>
        LET t == last.b
            W1 == last.a
            W2 == last.pre.next_window_id
        IN  IF W1 \in Range(last.pre.windows[t])
            THEN /\ overlay_for[W2] = W1
                 /\ overlay_window_id[W1] = W2
            ELSE /\ Calls("raise", 0) # {}
                 /\ windows[t] = last.pre.windows[t]
                 /\ active_window_idx[t] = last.pre.active_window_idx[t]
                 /\ \A i \in 1..Len(trace) :
                        trace[i].call \notin {"add_child", "layout.add_window"}

\* an overlay opened over the only window of the tab
C14_Witness ==
    /\ last.op = "new_window_overlay"
    /\ last.a \in Range(last.pre.windows[last.b])
    /\ Len(windows[last.b]) = 2
    /\ overlay_window_id[last.a] = next_window_id - 1

\* Two strings that differ at most in the case of their letters
SameButCase(x, y) ==
    /\ Len(x) = Len(y)
    /\ \A i \in 1..Len(x) :
           \/ x[i] = y[i]
           \/ (x[i] \in 65..90 /\ y[i] = x[i] + 32)
           \/ (y[i] \in 65..90 /\ x[i] = y[i] + 32)

\* C15: goto_layout(name) with a name that is, up to the case of its letters, one
\* of enabled_layouts makes that layout the current one and relayouts, whatever
\* the case the name was given in; with any other name it reports an error,
\* leaves current_layout, the windows and active_window_idx as they were and
\* does nothing else.
C15_GotoLayoutByName ==
    last.op = "goto_layout" =>
        LET t == last.b
            E == {e \in Range(Tab_enabled_layouts) : SameButCase(last.a, e)}
        IN  IF E # {}
            THEN /\ current_layout[t] \in E
                 /\ windows[t] = last.pre.windows[t]
                 /\ Calls("relayout_borders", t) # {}
                 /\ Calls("log_error", 0) = {}
            ELSE /\ current_layout[t] = last.pre.current_layout[t]
                 /\ windows[t] = last.pre.windows[t]
                 /\ active_window_idx[t] = last.pre.active_window_idx[t]
                 /\ trace = <<Ev("log_error", 0, 0, "Tab")>>

\* "STACK" given to a tab of two windows whose layout was "tall"
C15_Witness ==
    /\ last.op = "goto_layout"
    /\ last.a = <<83, 84, 65, 67, 75>>
    /\ last.pre.current_layout[last.b] = <<116, 97, 108, 108>>
    /\ current_layout[last.b] = <<115, 116, 97, 99, 107>>
    /\ Len(windows[last.b]) = 2

\* C16: tab_bar_data returns one record per tab in tab order; a record's
\* needs_attention is true exactly when some window of its tab has the attention
\* flag set, is_active exactly for the tab at active_tab_idx and is_last exactly
\* for the last tab; reading it changes no state and makes no call.
C16_TabBarAggregation ==
    last.op = "tab_bar_data" =>
        /\ Len(last.r) = Len(tabs)
        /\ \A i \in 1..Len(tabs) :
               /\ last.r[i].tab = tabs[i]
               /\ last.r[i].needs_attention
                      <=> (Range(windows[tabs[i]]) \cap needs_attention # {})
               /\ last.r[i].is_active <=> (i - 1 = active_tab_idx)
               /\ last.r[i].is_last <=> (i = Len(tabs))
        /\ tabs = last.pre.tabs
        /\ active_tab_idx = last.pre.active_tab_idx
        /\ active_tab_history = last.pre.active_tab_history
        /\ windows = last.pre.windows
        /\ active_window_idx = last.pre.active_window_idx
        /\ trace = <<>>

\* two tabs or more, one of two windows of which only the second is flagged and
\* one with no flagged window
C16_Witness ==
    /\ last.op = "tab_bar_data"
    /\ Len(tabs) >= 2
    /\ \E i \in 1..Len(tabs) :
           /\ Len(windows[tabs[i]]) = 2
           /\ windows[tabs[i]][1] \notin needs_attention
           /\ windows[tabs[i]][2] \in needs_attention
           /\ last.r[i].needs_attention
    /\ \E j \in 1..Len(tabs) : ~last.r[j].needs_attention

====
